---- MODULE Spec2Model ----
(***************************************************************************)
(* Action registry, shortcut store, custom commands, worker thread and     *)
(* MPRIS registration of src/src/application.cpp (class Application).      *)
(*                                                                         *)
(* KActionCollection, KConfig, QKeySequence, QThread and QDBusConnection   *)
(* are libraries the class calls; each call is modelled by what the        *)
(* library does with the arguments the source passes.                      *)
(***************************************************************************)
EXTENDS Integers, Sequences, FiniteSets, TLC

(* ----------------------------- bounds ---------------------------------- *)

\* how many entries of the catalog (in source order) the UI asks for
NumRequested == 2
\* how many calls the UI makes in one run
MaxCalls == 3
\* largest Counter value found in the custom-commands file
MaxCounter == 1
\* how many units of work are submitted to the worker
MaxWork == 1
\* how many times the re-entrant harness repeats a startup step
MaxRepeat == 1

(* ------------------------- key sequences ------------------------------- *)

\* A QKeySequence of one key is [mods, key]; a shortcut (QList<QKeySequence>)
\* is a sequence of them.  Qt::Key_unknown is what decodeString yields for a
\* text that names no key.
Key_unknown == [mods |-> {}, key |-> "unknown"]

\* portable text of each Qt::Key the source uses (QKeySequence's key names)
KeyText ==
    [k \in {"0", "1", "2", "3", "4", "5", "6", "7", "8", "9", "D", "F", "H",
            "J", "L", "M", "O", "P", "Q", "R", "S", "X", "Z", "F1", "Up",
            "Down", "Left", "Right", "Menu"} |-> k]
    @@ ("Backspace" :> "Backspace") @@ ("BracketLeft" :> "[")
    @@ ("BracketRight" :> "]") @@ ("Comma" :> ",") @@ ("Period" :> ".")
    @@ ("Plus" :> "+") @@ ("Minus" :> "-") @@ ("Escape" :> "Esc")
    @@ ("PageDown" :> "PgDown") @@ ("PageUp" :> "PgUp")

\* QKeySequence::toString(PortableText) of one key sequence
encodeString(k) ==
    IF k.key = "unknown" THEN ""
    ELSE (IF "Ctrl" \in k.mods THEN "Ctrl+" ELSE "")
         \o (IF "Alt" \in k.mods THEN "Alt+" ELSE "")
         \o (IF "Shift" \in k.mods THEN "Shift+" ELSE "")
         \o KeyText[k.key]

RECURSIVE listToString(_)
\* QKeySequence::listToString: the texts joined by "; "
listToString(l) ==
    IF l = <<>> THEN ""
    ELSE IF Len(l) = 1 THEN encodeString(l[1])
    ELSE encodeString(l[1]) \o "; " \o listToString(Tail(l))

(* --------------------------- the catalog ------------------------------- *)

\* the if-chain of setupActions, in source order
Catalog ==
<<
    [name |-> "screenshot", text |-> "Screenshot", icon |-> "image-x-generic", mods |-> {}, key |-> "S"],
    [name |-> "file_quit", text |-> "Quit", icon |-> "application-exit", mods |-> {"Ctrl"}, key |-> "Q"],
    [name |-> "options_configure_keybinding", text |-> "Configure Keyboard Shortcuts", icon |-> "configure-shortcuts", mods |-> {"Ctrl", "Shift"}, key |-> "S"],
    [name |-> "configure", text |-> "Configure", icon |-> "configure", mods |-> {"Ctrl", "Shift"}, key |-> "Comma"],
    [name |-> "togglePlaylist", text |-> "Playlist", icon |-> "view-media-playlist", mods |-> {}, key |-> "P"],
    [name |-> "openContextMenu", text |-> "Open Context Menu", icon |-> "application-menu", mods |-> {}, key |-> "Menu"],
    [name |-> "toggleFullscreen", text |-> "Toggle Fullscreen", icon |-> "view-fullscreen", mods |-> {}, key |-> "F"],
    [name |-> "openFile", text |-> "Open File", icon |-> "folder-videos", mods |-> {"Ctrl"}, key |-> "O"],
    [name |-> "openUrl", text |-> "Open Url", icon |-> "internet-services", mods |-> {"Ctrl", "Shift"}, key |-> "O"],
    [name |-> "aboutHaruna", text |-> "About Haruna", icon |-> "help-about", mods |-> {}, key |-> "F1"],
    [name |-> "contrastUp", text |-> "Contrast Up", icon |-> "contrast", mods |-> {}, key |-> "1"],
    [name |-> "contrastDown", text |-> "Contrast Down", icon |-> "contrast", mods |-> {}, key |-> "2"],
    [name |-> "contrastReset", text |-> "Contrast Reset", icon |-> "contrast", mods |-> {"Ctrl"}, key |-> "1"],
    [name |-> "brightnessUp", text |-> "Brightness Up", icon |-> "contrast", mods |-> {}, key |-> "3"],
    [name |-> "brightnessDown", text |-> "Brightness Down", icon |-> "contrast", mods |-> {}, key |-> "4"],
    [name |-> "brightnessReset", text |-> "Brightness Reset", icon |-> "contrast", mods |-> {"Ctrl"}, key |-> "3"],
    [name |-> "gammaUp", text |-> "Gamma Up", icon |-> "contrast", mods |-> {}, key |-> "5"],
    [name |-> "gammaDown", text |-> "Gamma Down", icon |-> "contrast", mods |-> {}, key |-> "6"],
    [name |-> "gammaReset", text |-> "Gamma Reset", icon |-> "contrast", mods |-> {"Ctrl"}, key |-> "5"],
    [name |-> "saturationUp", text |-> "Saturation Up", icon |-> "contrast", mods |-> {}, key |-> "7"],
    [name |-> "saturationDown", text |-> "Saturation Down", icon |-> "contrast", mods |-> {}, key |-> "8"],
    [name |-> "saturationReset", text |-> "Saturation Reset", icon |-> "contrast", mods |-> {"Ctrl"}, key |-> "7"],
    [name |-> "playNext", text |-> "Play Next", icon |-> "media-skip-forward", mods |-> {"Shift"}, key |-> "Period"],
    [name |-> "playPrevious", text |-> "Play Previous", icon |-> "media-skip-backward", mods |-> {"Shift"}, key |-> "Comma"],
    [name |-> "volumeUp", text |-> "Volume Up", icon |-> "audio-volume-high", mods |-> {}, key |-> "9"],
    [name |-> "volumeDown", text |-> "Volume Down", icon |-> "audio-volume-low", mods |-> {}, key |-> "0"],
    [name |-> "mute", text |-> "Mute", icon |-> "player-volume", mods |-> {}, key |-> "M"],
    [name |-> "seekForwardSmall", text |-> "Seek Small Step Forward", icon |-> "media-seek-forward", mods |-> {}, key |-> "Right"],
    [name |-> "seekBackwardSmall", text |-> "Seek Small Step Backward", icon |-> "media-seek-backward", mods |-> {}, key |-> "Left"],
    [name |-> "seekForwardMedium", text |-> "Seek Medium Step Forward", icon |-> "media-seek-forward", mods |-> {"Shift"}, key |-> "Right"],
    [name |-> "seekBackwardMedium", text |-> "Seek Medium Step Backward", icon |-> "media-seek-backward", mods |-> {"Shift"}, key |-> "Left"],
    [name |-> "seekForwardBig", text |-> "Seek Big Step Forward", icon |-> "media-seek-forward", mods |-> {}, key |-> "Up"],
    [name |-> "seekBackwardBig", text |-> "Seek Big Step Backward", icon |-> "media-seek-backward", mods |-> {}, key |-> "Down"],
    [name |-> "seekPreviousChapter", text |-> "Seek Previous Chapter", icon |-> "media-seek-backward", mods |-> {}, key |-> "PageDown"],
    [name |-> "seekNextChapter", text |-> "Seek Next Chapter", icon |-> "media-seek-forward", mods |-> {}, key |-> "PageUp"],
    [name |-> "seekNextSubtitle", text |-> "Seek To Next Subtitle", icon |-> "media-seek-forward", mods |-> {"Ctrl"}, key |-> "Right"],
    [name |-> "seekPreviousSubtitle", text |-> "Seek To Previous Subtitle", icon |-> "media-seek-backward", mods |-> {"Ctrl"}, key |-> "Left"],
    [name |-> "frameStep", text |-> "Move one frame forward, then pause", icon |-> "", mods |-> {}, key |-> "Period"],
    [name |-> "frameBackStep", text |-> "Move one frame backward, then pause", icon |-> "", mods |-> {}, key |-> "Comma"],
    [name |-> "increasePlayBackSpeed", text |-> "Playback speed increase", icon |-> "", mods |-> {}, key |-> "BracketRight"],
    [name |-> "decreasePlayBackSpeed", text |-> "Playback speed decrease", icon |-> "", mods |-> {}, key |-> "BracketLeft"],
    [name |-> "resetPlayBackSpeed", text |-> "Playback speed reset", icon |-> "", mods |-> {}, key |-> "Backspace"],
    [name |-> "subtitleQuicken", text |-> "Subtitle Quicken", icon |-> "", mods |-> {}, key |-> "Z"],
    [name |-> "subtitleDelay", text |-> "Subtitle Delay", icon |-> "", mods |-> {"Shift"}, key |-> "Z"],
    [name |-> "subtitleToggle", text |-> "Subtitle Toggle", icon |-> "", mods |-> {"Ctrl"}, key |-> "S"],
    [name |-> "audioCycleUp", text |-> "Cycle Audio Up", icon |-> "", mods |-> {"Shift"}, key |-> "3"],
    [name |-> "audioCycleDown", text |-> "Cycle Audio Down", icon |-> "", mods |-> {"Shift"}, key |-> "2"],
    [name |-> "subtitleCycleUp", text |-> "Cycle Subtitle Up", icon |-> "", mods |-> {}, key |-> "J"],
    [name |-> "subtitleCycleDown", text |-> "Cycle Subtitle Down", icon |-> "", mods |-> {"Shift"}, key |-> "J"],
    [name |-> "zoomIn", text |-> "Zoom In", icon |-> "zoom-in", mods |-> {"Alt"}, key |-> "Plus"],
    [name |-> "zoomOut", text |-> "Zoom Out", icon |-> "zoom-out", mods |-> {"Alt"}, key |-> "Minus"],
    [name |-> "zoomReset", text |-> "Zoom Reset", icon |-> "zoom-original", mods |-> {"Alt"}, key |-> "Backspace"],
    [name |-> "videoPanXLeft", text |-> "Video pan x left", icon |-> "", mods |-> {"Alt"}, key |-> "Left"],
    [name |-> "videoPanXRight", text |-> "Video pan x right", icon |-> "", mods |-> {"Alt"}, key |-> "Right"],
    [name |-> "videoPanYUp", text |-> "Video pan y up", icon |-> "", mods |-> {"Alt"}, key |-> "Up"],
    [name |-> "videoPanYDown", text |-> "Video pan y down", icon |-> "", mods |-> {"Alt"}, key |-> "Down"],
    [name |-> "toggleMenuBar", text |-> "Toggle Menu Bar", icon |-> "", mods |-> {"Ctrl"}, key |-> "M"],
    [name |-> "toggleHeader", text |-> "Toggle Header", icon |-> "", mods |-> {"Ctrl"}, key |-> "H"],
    [name |-> "setLoop", text |-> "Set Loop", icon |-> "", mods |-> {}, key |-> "L"],
    [name |-> "increaseSubtitleFontSize", text |-> "Increase Subtitle Font Size", icon |-> "", mods |-> {"Ctrl"}, key |-> "Z"],
    [name |-> "decreaseSubtitleFontSize", text |-> "Decrease Subtitle Font Size", icon |-> "", mods |-> {"Ctrl"}, key |-> "X"],
    [name |-> "subtitlePositionUp", text |-> "Move Subtitle Up", icon |-> "", mods |-> {}, key |-> "R"],
    [name |-> "subtitlePositionDown", text |-> "Move Subtitle Down", icon |-> "", mods |-> {"Shift"}, key |-> "R"],
    [name |-> "toggleDeinterlacing", text |-> "Toggle deinterlacing", icon |-> "", mods |-> {}, key |-> "D"],
    [name |-> "exitFullscreen", text |-> "Exit Fullscreen", icon |-> "", mods |-> {}, key |-> "Escape"]
>>

CatalogIds == {Catalog[i].name : i \in 1..Len(Catalog)}

\* the shortcut setDefaultShortcut is given for catalog entry i
CatalogDefault(i) == <<[mods |-> Catalog[i].mods, key |-> Catalog[i].key]>>

\* keys the user assigns in the shortcuts dialog or that a file holds
UserKeys == {[mods |-> {"Alt"}, key |-> "S"]}

KnownKeys == {CatalogDefault(i)[1] : i \in 1..Len(Catalog)} \cup UserKeys

\* QKeySequence::listFromString of a non-empty text holding one sequence:
\* the key whose portable text it is, Qt::Key_unknown for any other text
listFromString(s) ==
    IF \E k \in KnownKeys : encodeString(k) = s
    THEN <<CHOOSE k \in KnownKeys : encodeString(k) = s>>
    ELSE <<Key_unknown>>

(* ------------------------------ state ---------------------------------- *)

VARIABLES
    pc,            \* where the constructor is, then "run" (or "exited")
    startup,       \* the constructor's steps run so far, in order
    actionByName,  \* m_collection: action name -> the QAction registered
    heap,          \* every HAction created so far, by object identity
    shortcuts,     \* m_shortcuts: the "Shortcuts" group, name -> text
    ccGroups,      \* custom-commands file: group name -> [Type, Command]
    ccCounter,     \* custom-commands file: Counter of the default group
    lastCall,      \* the last Application method run and what it returned
    nCommands,     \* custom commands loaded or created so far
    nCalls,        \* calls the UI has made so far
    threads,       \* every QThread made by setupWorkerThread
    worker,        \* Worker::instance()
    posted,        \* work events posted to the worker, not yet started
    submitted,     \* units of work submitted so far
    done,          \* units of work completed so far
    busConnected,  \* whether the session bus is available
    services,      \* service names this connection owns on the bus
    objects,       \* object paths registered on this connection
    nRepeat        \* startup steps repeated by the re-entrant harness

registryVars == <<actionByName, heap, shortcuts, ccGroups, ccCounter,
                  lastCall, nCommands, nCalls>>
threadVars == <<threads, worker, posted, submitted, done>>
busVars == <<busConnected, services, objects>>
vars == <<pc, startup, registryVars, threadVars, busVars, nRepeat>>

\* a map without entries
EmptyMap == [n \in {} |-> ""]

\* nullptr; object identities are 1, 2, ... in order of creation
NULL == 0

(* ----------------------- KActionCollection ----------------------------- *)

\* m_collection as a value: [byName, heap]
Collection == [byName |-> actionByName, heap |-> heap]

\* new HAction() after setText, setIcon and setDefaultShortcut (which sets
\* the default and the active shortcut); origin tells who created it
newHAction(text, icon, default, origin) ==
    [text |-> text, icon |-> icon, defaultShortcuts |-> default,
     shortcuts |-> default, origin |-> origin]

\* KActionCollection::action(name)
collectionAction(c, name) ==
    IF name # "" /\ name \in DOMAIN c.byName THEN c.byName[name] ELSE NULL

\* KActionCollection::addAction(name, action) for a new object: an action
\* already registered under the name is taken out of the collection
addAction(c, name, act) ==
    LET obj == Len(c.heap) + 1
    IN  [byName |-> [n \in DOMAIN c.byName \cup {name} |->
                        IF n = name THEN obj ELSE c.byName[n]],
         heap |-> Append(c.heap, act)]

\* the actions of the collection
LiveObjects(c) == {c.byName[n] : n \in DOMAIN c.byName}

NameOf(c, obj) == CHOOSE n \in DOMAIN c.byName : c.byName[n] = obj

\* faulty variant: an action without an entry loses its shortcut
readSettings_NoFallback(c, cfg) ==
    IF DOMAIN cfg = {} THEN c
    ELSE [c EXCEPT !.heap =
            [o \in DOMAIN c.heap |->
                IF o \in LiveObjects(c)
                THEN LET n == NameOf(c, o)
                         entry == IF n \in DOMAIN cfg THEN cfg[n] ELSE ""
                     IN  [c.heap[o] EXCEPT !.shortcuts =
                            IF entry # "" THEN listFromString(entry)
                            ELSE <<>>]
                ELSE c.heap[o]]]

\* KActionCollection::readSettings(m_shortcuts): nothing when the group
\* does not exist; else each action gets its entry's key sequences, or its
\* default shortcut when the entry is missing or empty
readSettings(c, cfg) ==
    IF DOMAIN cfg = {} THEN c
    ELSE [c EXCEPT !.heap =
            [o \in DOMAIN c.heap |->
                IF o \in LiveObjects(c)
                THEN LET n == NameOf(c, o)
                         entry == IF n \in DOMAIN cfg THEN cfg[n] ELSE ""
                     IN  [c.heap[o] EXCEPT !.shortcuts =
                            IF entry # "" THEN listFromString(entry)
                            ELSE c.heap[o].defaultShortcuts]
                ELSE c.heap[o]]]

\* what KActionCollection::writeSettings writes for a shortcut
storedText(l) == IF listToString(l) = "" THEN "none" ELSE listToString(l)

\* faulty variant: the entry of an action back at its default is left in
writeSettings_KeepStale(c, cfg) ==
    LET differs(n) == c.heap[c.byName[n]].shortcuts
                        # c.heap[c.byName[n]].defaultShortcuts
        new == {n \in DOMAIN c.byName : differs(n)}
    IN  [n \in DOMAIN cfg \cup new |->
            IF n \in new THEN storedText(c.heap[c.byName[n]].shortcuts)
            ELSE cfg[n]]

\* KActionCollection::writeSettings(m_shortcuts): an action whose shortcut
\* differs from its default gets an entry; one equal to its default loses
\* the entry it had
writeSettings(c, cfg) ==
    LET differs(n) == c.heap[c.byName[n]].shortcuts
                        # c.heap[c.byName[n]].defaultShortcuts
        keep == {n \in DOMAIN cfg : n \notin DOMAIN c.byName \/ differs(n)}
        new == {n \in DOMAIN c.byName : differs(n)}
    IN  [n \in keep \cup new |->
            IF n \in new THEN storedText(c.heap[c.byName[n]].shortcuts)
            ELSE cfg[n]]

(* ------------------------ Application methods -------------------------- *)

RECURSIVE catalogChain(_, _, _)
\* the if-chain of setupActions from entry i on
catalogChain(c, actionName, i) ==
    IF i > Len(Catalog) THEN c
    ELSE catalogChain(
            IF actionName = Catalog[i].name
            THEN addAction(c, actionName,
                    newHAction(Catalog[i].text, Catalog[i].icon,
                               CatalogDefault(i), "catalog"))
            ELSE c,
            actionName, i + 1)

\* faulty variant: the final readSettings is left out
setupActions_NoRead(c, cfg, actionName) == catalogChain(c, actionName, 1)

\* faulty variant: the store is applied to the new action only
setupActions_ReadNewOnly(c, cfg, actionName) ==
    LET c1 == catalogChain(c, actionName, 1)
        r == readSettings(c1, cfg)
    IN  [c1 EXCEPT !.heap =
            [o \in DOMAIN c1.heap |->
                IF o > Len(c.heap) THEN r.heap[o] ELSE c1.heap[o]]]

\* Application::setupActions(actionName)
setupActions(c, cfg, actionName) ==
    readSettings(catalogChain(c, actionName, 1), cfg)

\* what one Application method did, for the properties below
Call(op, name, arg, ret, merged) ==
    [op |-> op, name |-> name, arg |-> arg, ret |-> ret, merged |-> merged,
     before |-> actionByName, heapBefore |-> Len(heap),
     counter |-> ccCounter]

\* faulty variant: setupActions runs without looking the name up first
actionResult_NoLookup(c, cfg, name) ==
    LET c2 == setupActions(c, cfg, name)
    IN  [coll |-> c2, ret |-> collectionAction(c2, name), merged |-> TRUE]

\* faulty variant: a name the catalog lacks gets an empty action made for it
actionResult_MakeUnknown(c, cfg, name) ==
    IF collectionAction(c, name) # NULL
    THEN [coll |-> c, ret |-> collectionAction(c, name), merged |-> FALSE]
    ELSE LET c1 == IF name \in CatalogIds THEN catalogChain(c, name, 1)
                   ELSE addAction(c, name, newHAction(name, "", <<>>, "catalog"))
             c2 == readSettings(c1, cfg)
         IN  [coll |-> c2, ret |-> collectionAction(c2, name), merged |-> TRUE]

\* faulty variant: the store is read again when the name is found as well
actionResult_AlwaysRead(c, cfg, name) ==
    IF collectionAction(c, name) # NULL
    THEN [coll |-> readSettings(c, cfg), ret |-> collectionAction(c, name),
          merged |-> TRUE]
    ELSE LET c2 == setupActions(c, cfg, name)
         IN  [coll |-> c2, ret |-> collectionAction(c2, name), merged |-> TRUE]

\* faulty variant: a name the catalog lacks is answered without setupActions
actionResult_SkipUnknown(c, cfg, name) ==
    IF collectionAction(c, name) # NULL
    THEN [coll |-> c, ret |-> collectionAction(c, name), merged |-> FALSE]
    ELSE IF name \notin CatalogIds
    THEN [coll |-> c, ret |-> NULL, merged |-> FALSE]
    ELSE LET c2 == setupActions(c, cfg, name)
         IN  [coll |-> c2, ret |-> collectionAction(c2, name), merged |-> TRUE]

\* Application::action(name) as a function of the collection and the store
actionResult(c, cfg, name) ==
    IF collectionAction(c, name) # NULL
    THEN [coll |-> c, ret |-> collectionAction(c, name), merged |-> FALSE]
    ELSE LET c2 == setupActions(c, cfg, name)
         IN  [coll |-> c2, ret |-> collectionAction(c2, name), merged |-> TRUE]

\* Application::action(name), called by the UI
action(name) ==
    /\ pc = "run"
    /\ nCalls < MaxCalls
    /\ nCalls' = nCalls + 1
    /\ LET r == actionResult(Collection, shortcuts, name)
       IN  /\ actionByName' = r.coll.byName
           /\ heap' = r.coll.heap
           /\ lastCall' = Call("action", name, "", r.ret, r.merged)
    /\ UNCHANGED <<pc, startup, shortcuts, ccGroups, ccCounter, nCommands, threadVars,
                   busVars, nRepeat>>

\* the name createUserAction builds: QString("Command_%1").arg(counter)
commandName(counter) == "Command_" \o ToString(counter)

\* faulty variant: the Counter is written back incremented
createUserAction_Increment(text) ==
    /\ pc = "run"
    /\ nCalls < MaxCalls
    /\ LET name == commandName(ccCounter)
           c == readSettings(
                    addAction(Collection, name, newHAction(text, "", <<>>, "user")),
                    shortcuts)
       IN  /\ actionByName' = c.byName
           /\ heap' = c.heap
           /\ lastCall' = Call("createUserAction", name, text, NULL, TRUE)
    /\ ccCounter' = ccCounter + 1
    /\ nCalls' = nCalls + 1
    /\ nCommands' = nCommands + 1
    /\ UNCHANGED <<pc, startup, shortcuts, ccGroups, threadVars, busVars, nRepeat>>

\* Application::createUserAction(text), called by the UI
createUserAction(text) ==
    /\ pc = "run"
    /\ nCalls < MaxCalls
    /\ LET name == commandName(ccCounter)
           c == readSettings(
                    addAction(Collection, name, newHAction(text, "", <<>>, "user")),
                    shortcuts)
       IN  /\ actionByName' = c.byName
           /\ heap' = c.heap
           /\ lastCall' = Call("createUserAction", name, text, NULL, TRUE)
    /\ nCalls' = nCalls + 1
    /\ nCommands' = nCommands + 1
    /\ UNCHANGED <<pc, startup, shortcuts, ccGroups, ccCounter, threadVars, busVars,
                   nRepeat>>

RECURSIVE addGroups(_, _, _)
\* the loop of setupUserActions over the groups still in todo
addGroups(c, groups, todo) ==
    IF todo = {} THEN c
    ELSE LET g == CHOOSE x \in todo : TRUE
         IN  addGroups(
                IF groups[g].Type = "shortcut"
                THEN addAction(c, g, newHAction(groups[g].Command, "", <<>>, "user"))
                ELSE c,
                groups, todo \ {g})

\* faulty variant: the Type of a group is not looked at
userActions_AnyType(c, groups, cfg) ==
    readSettings(
        addGroups(c, [g \in DOMAIN groups |->
                        [groups[g] EXCEPT !.Type = "shortcut"]], DOMAIN groups),
        cfg)

\* Application::setupUserActions as a function of collection, file, store
userActions(c, groups, cfg) ==
    readSettings(addGroups(c, groups, DOMAIN groups), cfg)

\* the groups setupUserActions makes actions for
ShortcutGroups == {g \in DOMAIN ccGroups : ccGroups[g].Type = "shortcut"}

\* Application::setupUserActions, the constructor's first step
setupUserActions ==
    /\ pc = "setupUserActions"
    /\ startup' = Append(startup, "setupUserActions")
    /\ LET c == userActions(Collection, ccGroups, shortcuts)
       IN  /\ actionByName' = c.byName
           /\ heap' = c.heap
    /\ lastCall' = Call("setupUserActions", "", "", NULL, TRUE)
    /\ nCommands' = nCommands + Cardinality(ShortcutGroups)
    /\ pc' = "registerMpris"
    /\ UNCHANGED <<shortcuts, ccGroups, ccCounter, threadVars, busVars,
                   nRepeat, nCalls>>

\* the shortcuts the user may give an action in the dialog
DialogShortcuts(obj) ==
    {<<>>, heap[obj].defaultShortcuts} \cup {<<k>> : k \in UserKeys}

\* Application::configureShortcuts: the modal dialog, in which the user
\* gives the actions in edits new shortcuts and then accepts or cancels;
\* accepting runs writeSettings and sync, cancelling undoes the edits
configureShortcuts(edits, accepted) ==
    /\ pc = "run"
    /\ nCalls < MaxCalls
    /\ nCalls' = nCalls + 1
    /\ lastCall' = Call("configureShortcuts", "",
                    IF accepted THEN "accepted" ELSE "rejected", NULL, FALSE)
    /\ IF accepted
       THEN LET h == [o \in DOMAIN heap |->
                        IF o \in DOMAIN edits
                        THEN [heap[o] EXCEPT !.shortcuts = edits[o]]
                        ELSE heap[o]]
            IN  /\ heap' = h
                /\ shortcuts' = writeSettings(
                        [byName |-> actionByName, heap |-> h], shortcuts)
       ELSE UNCHANGED <<heap, shortcuts>>
    /\ UNCHANGED <<pc, startup, actionByName, ccGroups, ccCounter, nCommands,
                   threadVars, busVars, nRepeat>>

(* ------------------------- MPRIS registration -------------------------- *)

mspris2Name == "org.mpris.MediaPlayer2.haruna"
mprisPath == "/org/mpris/MediaPlayer2"

\* QDBusConnection::registerService: fails without a bus connection; a name
\* this connection already owns stays owned once
registerService(bus, name) ==
    IF bus.connected
    THEN [bus |-> [bus EXCEPT !.services = @ \cup {name}], ok |-> TRUE]
    ELSE [bus |-> bus, ok |-> FALSE]

\* QDBusConnection::registerObject: fails without a bus connection and when
\* the path already has an object
registerObject(bus, path) ==
    IF bus.connected /\ path \notin bus.objects
    THEN [bus |-> [bus EXCEPT !.objects = @ \cup {path}], ok |-> TRUE]
    ELSE [bus |-> bus, ok |-> FALSE]

Bus == [connected |-> busConnected, services |-> services, objects |-> objects]

\* faulty variant: a registration that fails ends the process
registerMprisResult_Abort(bus) ==
    LET s == registerService(bus, mspris2Name)
        o == registerObject(s.bus, mprisPath)
    IN  [bus |-> o.bus, failed |-> ~s.ok \/ ~o.ok]

\* the constructor's registration lines: both results are dropped
registerMprisResult(bus) ==
    LET s == registerService(bus, mspris2Name)
        o == registerObject(s.bus, mprisPath)
    IN  [bus |-> o.bus, failed |-> FALSE]

\* faulty variant: after the registration the constructor goes on without
\* setupWorkerThread
registerMpris_SkipWorker ==
    /\ pc = "registerMpris"
    /\ startup' = Append(startup, "registerMpris")
    /\ LET r == registerMprisResult(Bus)
       IN  /\ services' = r.bus.services
           /\ objects' = r.bus.objects
           /\ pc' = IF r.failed THEN "exited" ELSE "loadEngine"
    /\ lastCall' = Call("registerMpris", "", "", NULL, FALSE)
    /\ UNCHANGED <<actionByName, heap, shortcuts, ccGroups, ccCounter,
                   nCommands, nCalls, threadVars, busConnected, nRepeat>>

\* the constructor registers the MPRIS service and object
registerMpris ==
    /\ pc = "registerMpris"
    /\ startup' = Append(startup, "registerMpris")
    /\ LET r == registerMprisResult(Bus)
       IN  /\ services' = r.bus.services
           /\ objects' = r.bus.objects
           /\ pc' = IF r.failed THEN "exited" ELSE "setupWorkerThread"
    /\ lastCall' = Call("registerMpris", "", "", NULL, FALSE)
    /\ UNCHANGED <<actionByName, heap, shortcuts, ccGroups, ccCounter,
                   nCommands, nCalls, threadVars, busConnected, nRepeat>>

(* --------------------------- worker thread ----------------------------- *)

\* the thread the constructor runs on
MainThread == 0

\* setupWorkerThread as a function of the threads and the worker: a new
\* QThread; moveToThread moves the worker only from the calling thread;
\* both connections to finished; start()
workerThreadResult(ths, w) ==
    [threads |-> Append(ths, [state |-> "starting", quit |-> FALSE,
                               delCall |-> FALSE, deferred |-> FALSE]),
     worker |-> IF w.thread = MainThread
                THEN [w EXCEPT !.thread = Len(ths) + 1]
                ELSE w]

\* Application::setupWorkerThread, a step of the constructor
setupWorkerThread ==
    /\ pc = "setupWorkerThread"
    /\ startup' = Append(startup, "setupWorkerThread")
    /\ LET r == workerThreadResult(threads, worker)
       IN  /\ threads' = r.threads
           /\ worker' = r.worker
    /\ pc' = "loadEngine"
    /\ lastCall' = Call("setupWorkerThread", "", "", NULL, FALSE)
    /\ UNCHANGED <<actionByName, heap, shortcuts, ccGroups, ccCounter,
                   nCommands, nCalls, posted, submitted, done, busVars,
                   nRepeat>>

\* m_engine->load(url): the root object is created, or it is not and
\* onObjectCreated exits the application
loadEngine(ok) ==
    /\ pc = "loadEngine"
    /\ startup' = Append(startup, "loadEngine")
    /\ pc' = IF ok THEN "run" ELSE "exited"
    /\ UNCHANGED <<registryVars, threadVars, busVars, nRepeat>>

Alive == pc # "exited"

\* a unit of work is sent to the worker (a queued call posted to it):
\* only to a worker in its thread and before any shutdown request
SubmitWork ==
    /\ Alive
    /\ worker.alive /\ worker.thread # MainThread
    /\ \A t \in DOMAIN threads : ~threads[t].quit
    /\ submitted < MaxWork
    /\ submitted' = submitted + 1
    /\ posted' = posted + 1
    /\ UNCHANGED <<pc, startup, registryVars, threads, worker, done, busVars, nRepeat>>

\* QThread::run reaches exec() and the event loop starts
ThreadEnterLoop(t) ==
    /\ Alive
    /\ threads[t].state = "starting" /\ ~threads[t].quit
    /\ threads' = [threads EXCEPT ![t].state = "looping"]
    /\ UNCHANGED <<pc, startup, registryVars, worker, posted, submitted, done, busVars,
                   nRepeat>>

\* the worker's thread takes a posted unit of work and starts it
WorkBegin ==
    /\ Alive
    /\ worker.alive /\ ~worker.busy /\ posted > 0
    /\ worker.thread \in DOMAIN threads
    /\ threads[worker.thread].state = "looping"
    /\ worker' = [worker EXCEPT !.busy = TRUE]
    /\ posted' = posted - 1
    /\ UNCHANGED <<pc, startup, registryVars, threads, submitted, done, busVars, nRepeat>>

\* the unit of work in progress completes
WorkEnd ==
    /\ Alive
    /\ worker.busy
    /\ worker' = [worker EXCEPT !.busy = FALSE]
    /\ done' = done + 1
    /\ UNCHANGED <<pc, startup, registryVars, threads, posted, submitted, busVars,
                   nRepeat>>

\* the shutdown request: QThread::quit() on a thread that runs
RequestShutdown(t) ==
    /\ Alive
    /\ threads[t].state \in {"starting", "looping"} /\ ~threads[t].quit
    /\ threads' = [threads EXCEPT ![t].quit = TRUE]
    /\ UNCHANGED <<pc, startup, registryVars, worker, posted, submitted, done, busVars,
                   nRepeat>>

\* faulty variant: the worker's deleteLater is always queued, never run at
\* once in the finishing thread
workerOnFinished_Queued(w, t) ==
    IF ~w.alive THEN w ELSE [w EXCEPT !.delCall = TRUE]

\* the worker after finished is emitted by thread t, through the connection
\* made at line 139: deleteLater runs at once when the worker lives in t,
\* and is queued to the worker's thread when it lives elsewhere
workerOnFinished(w, t) ==
    IF ~w.alive THEN w
    ELSE IF w.thread = t THEN [w EXCEPT !.deferred = TRUE]
    ELSE [w EXCEPT !.delCall = TRUE]

\* exec() returns in thread t (quit was asked before the loop started, or
\* the loop sees the exit flag between two events) and finished is emitted
ThreadReturn(t) ==
    /\ Alive
    /\ threads[t].state \in {"starting", "looping"} /\ threads[t].quit
    /\ ~(worker.alive /\ worker.thread = t /\ worker.busy)
    /\ threads' = [threads EXCEPT ![t].state = "inFinish", ![t].delCall = TRUE]
    /\ worker' = workerOnFinished(worker, t)
    /\ UNCHANGED <<pc, startup, registryVars, posted, submitted, done, busVars, nRepeat>>

\* thread t delivers the deferred deletes of its objects and ends: a worker
\* that lives in t and has deleteLater pending is deleted, and the events
\* still posted to it go with it
ThreadFinish(t) ==
    /\ Alive
    /\ threads[t].state = "inFinish"
    /\ threads' = [threads EXCEPT ![t].state = "finished"]
    /\ IF worker.alive /\ worker.thread = t /\ worker.deferred
       THEN /\ worker' = [worker EXCEPT !.alive = FALSE, !.deferred = FALSE]
            /\ posted' = 0
       ELSE UNCHANGED <<worker, posted>>
    /\ UNCHANGED <<pc, startup, registryVars, submitted, done, busVars, nRepeat>>

\* the main event loop runs the queued QThread::deleteLater of thread t
\* (the connection made at line 141)
MainDeleteLater(t) ==
    /\ pc = "run"
    /\ threads[t].delCall
    /\ threads' = [threads EXCEPT ![t].delCall = FALSE, ![t].deferred = TRUE]
    /\ UNCHANGED <<pc, startup, registryVars, worker, posted, submitted, done, busVars,
                   nRepeat>>

\* the main event loop deletes the QThread object; ~QThread waits for a
\* thread that is finishing
MainDeferredDelete(t) ==
    /\ pc = "run"
    /\ threads[t].deferred /\ threads[t].state = "finished"
    /\ threads' = [threads EXCEPT ![t].state = "deleted", ![t].deferred = FALSE]
    /\ UNCHANGED <<pc, startup, registryVars, worker, posted, submitted, done, busVars,
                   nRepeat>>

(* ------------------- repeated startup steps (harness) ------------------ *)

\* setupWorkerThread called once more (while Worker::instance() is alive)
RepeatSetupWorkerThread ==
    /\ pc = "run"
    /\ nRepeat < MaxRepeat
    /\ worker.alive
    /\ LET r == workerThreadResult(threads, worker)
       IN  /\ threads' = r.threads
           /\ worker' = r.worker
    /\ nRepeat' = nRepeat + 1
    /\ lastCall' = Call("setupWorkerThread", "", "", NULL, FALSE)
    /\ UNCHANGED <<pc, startup, actionByName, heap, shortcuts, ccGroups, ccCounter,
                   nCommands, nCalls, posted, submitted, done, busVars>>

\* the registration lines run once more
RepeatRegisterMpris ==
    /\ pc = "run"
    /\ nRepeat < MaxRepeat
    /\ LET r == registerMprisResult(Bus)
       IN  /\ services' = r.bus.services
           /\ objects' = r.bus.objects
           /\ pc' = IF r.failed THEN "exited" ELSE pc
    /\ nRepeat' = nRepeat + 1
    /\ lastCall' = Call("registerMprisAgain", "", "", NULL, FALSE)
    /\ UNCHANGED <<startup, actionByName, heap, shortcuts, ccGroups, ccCounter,
                   nCommands, nCalls, threadVars, busConnected>>

\* the worker's thread runs a deleteLater call queued by another thread's
\* finished signal
WorkerDeleteLater ==
    /\ Alive
    /\ worker.alive /\ worker.delCall /\ ~worker.busy
    /\ worker.thread \in DOMAIN threads
    /\ threads[worker.thread].state = "looping"
    /\ worker' = [worker EXCEPT !.delCall = FALSE, !.deferred = TRUE]
    /\ UNCHANGED <<pc, startup, registryVars, threads, posted, submitted, done, busVars,
                   nRepeat>>

\* the worker's running event loop deletes the worker
WorkerDeferredDelete ==
    /\ Alive
    /\ worker.alive /\ worker.deferred /\ ~worker.busy
    /\ worker.thread \in DOMAIN threads
    /\ threads[worker.thread].state = "looping"
    /\ worker' = [worker EXCEPT !.alive = FALSE, !.deferred = FALSE]
    /\ posted' = 0
    /\ UNCHANGED <<pc, startup, registryVars, threads, submitted, done, busVars, nRepeat>>

(* ------------------------------ properties ----------------------------- *)

LiveNames == DOMAIN actionByName

Live(n) == heap[actionByName[n]]

\* the last step was a call of Application::action
Resolved == lastCall.op = "action"

\* C1: resolving a catalog id that is live returns the object registered
\* under it and creates nothing, and no other call changes the object
\* registered under a catalog id unless it registers an action under that
\* id; so a second action(id) returns the object the first returned.
C1_ResolveTwiceSameObject ==
    [][\A id \in CatalogIds \cap DOMAIN actionByName :
        /\ (lastCall'.op = "action" /\ lastCall'.name = id)
            => (lastCall'.ret = actionByName[id] /\ heap' = heap)
        /\ ~(lastCall'.op \in {"createUserAction", "setupUserActions"}
                /\ id \in DOMAIN actionByName'
                /\ actionByName'[id] > Len(heap))
            => (id \in DOMAIN actionByName'
                /\ actionByName'[id] = actionByName[id])]_vars

\* a catalog id is resolved while already live, after some other call
C1_Witness ==
    /\ Resolved
    /\ lastCall.name \in CatalogIds \cap DOMAIN lastCall.before
    /\ lastCall.ret = lastCall.before[lastCall.name]
    /\ nCalls = 3

\* C2: after a call of action(), every live action whose name has an entry
\* in the "Shortcuts" group carries the binding stored there (compared in
\* the form the store holds), whether the call created it or found it.
C2_StoredOverridesDefault ==
    Resolved =>
        \A n \in LiveNames \cap DOMAIN shortcuts :
            storedText(Live(n).shortcuts) = shortcuts[n]

\* action() created a catalog action whose stored binding is not its default
C2_Witness ==
    /\ Resolved
    /\ lastCall.ret # NULL
    /\ lastCall.name \notin DOMAIN lastCall.before
    /\ lastCall.name \in DOMAIN shortcuts
    /\ heap[lastCall.ret].shortcuts # heap[lastCall.ret].defaultShortcuts
    /\ storedText(heap[lastCall.ret].shortcuts) = shortcuts[lastCall.name]

\* C3: after a call that ran readSettings, every live action whose name has
\* no entry in the "Shortcuts" group has its default shortcut (the catalog
\* default, or none for a custom action).
C3_AbsentEntryGivesDefault ==
    lastCall.merged =>
        \A n \in LiveNames \ DOMAIN shortcuts :
            Live(n).shortcuts = Live(n).defaultShortcuts

\* a merge over an existing store left a catalog action without an entry
C3_Witness ==
    /\ lastCall.merged
    /\ DOMAIN shortcuts # {}
    /\ \E n \in LiveNames \ DOMAIN shortcuts :
        /\ Live(n).origin = "catalog"
        /\ Live(n).shortcuts = Live(n).defaultShortcuts
        /\ Live(n).defaultShortcuts # <<>>

\* C4: right after setupUserActions the collection holds one new action for
\* each group whose Type is "shortcut", named as the group and with the
\* group's Command as text, and no action for a group of another Type.
C4_LoadAllShortcutGroups ==
    lastCall.op = "setupUserActions" =>
        /\ LiveNames = ShortcutGroups
        /\ Len(heap) = lastCall.heapBefore + Cardinality(ShortcutGroups)
        /\ \A g \in ShortcutGroups :
            /\ actionByName[g] > lastCall.heapBefore
            /\ Live(g).text = ccGroups[g].Command
        /\ \A g, h \in ShortcutGroups :
            actionByName[g] = actionByName[h] => g = h

\* a file with a "shortcut" group and a group of another Type was loaded
C4_Witness ==
    /\ lastCall.op = "setupUserActions"
    /\ ShortcutGroups # {}
    /\ ShortcutGroups # DOMAIN ccGroups
    /\ LiveNames = ShortcutGroups

\* C5: right after createUserAction(text) with Counter = c, a new action
\* named "Command_<c>" with that text is registered and Counter is still c.
C5_CreateOneUsesCounter ==
    lastCall.op = "createUserAction" =>
        /\ lastCall.name = "Command_" \o ToString(lastCall.counter)
        /\ lastCall.name \in LiveNames
        /\ actionByName[lastCall.name] = lastCall.heapBefore + 1
        /\ Len(heap) = lastCall.heapBefore + 1
        /\ Live(lastCall.name).text = lastCall.arg
        /\ ccCounter = lastCall.counter

\* createUserAction ran with Counter = 1
C5_Witness ==
    /\ lastCall.op = "createUserAction"
    /\ lastCall.counter = 1
    /\ "Command_1" \in LiveNames
    /\ Live("Command_1").text = "cycle mute"
    /\ ccCounter = 1

WorkerReleased == ~worker.alive

ContextReleased == \E t \in DOMAIN threads : threads[t].state = "deleted"

\* C6: with one unit of work submitted and shutdown requested, the worker
\* and the thread object are released only once that work has completed.
C6_ReleaseAfterWork ==
    (submitted = 1 /\ (WorkerReleased \/ ContextReleased)) => done = 1

C8_UnknownNameNoObject ==
    (Resolved /\ lastCall.name \notin DOMAIN lastCall.before
              /\ lastCall.name \notin CatalogIds) =>
        /\ lastCall.ret = NULL
        /\ actionByName = lastCall.before
        /\ Len(heap) = lastCall.heapBefore

\* an unknown name was resolved while the collection held actions
C8_Witness ==
    /\ Resolved
    /\ lastCall.name = "noSuchAction"
    /\ lastCall.ret = NULL
    /\ lastCall.before # EmptyMap

\* the live actions made for custom commands
LiveCustom == {n \in LiveNames : Live(n).origin = "user"}

\* C9: the live custom actions are as many as the custom commands loaded
\* or created, each under its own generated id.
C9_OneActionPerCommand == Cardinality(LiveCustom) = nCommands

\* C10: however often setupWorkerThread runs, at most one thread was made
\* and started.
C10_StartOneShot == Len(threads) <= 1

\* the last step was a shortcuts dialog the user accepted
Persisted == lastCall.op = "configureShortcuts" /\ lastCall.arg = "accepted"

\* the live actions after one more readSettings of the store
Remerged == readSettings(Collection, shortcuts).heap

\* C11 as stated: after an accepted dialog every live action has its
\* shortcut in the store, and one more readSettings changes no shortcut.
C11_PersistWritesEveryBinding ==
    Persisted =>
        \A n \in LiveNames :
            /\ n \in DOMAIN shortcuts
            /\ shortcuts[n] = storedText(Live(n).shortcuts)
            /\ Remerged[actionByName[n]].shortcuts = Live(n).shortcuts

\* C11: after an accepted dialog the store has, for each live action, the
\* stored form of its shortcut if that differs from the action's default and
\* no entry if it equals the default; one more readSettings gives every live
\* action a shortcut with the stored form it had (a cleared shortcut comes
\* back as the unknown key, which binds no key either).
C11_PersistWritesChangedBindings ==
    Persisted =>
        \A n \in LiveNames :
            /\ Live(n).shortcuts # Live(n).defaultShortcuts
                => /\ n \in DOMAIN shortcuts
                   /\ shortcuts[n] = storedText(Live(n).shortcuts)
            /\ Live(n).shortcuts = Live(n).defaultShortcuts
                => n \notin DOMAIN shortcuts
            /\ storedText(Remerged[actionByName[n]].shortcuts)
                = storedText(Live(n).shortcuts)

\* an accepted dialog put one action back at its default, whose entry is now
\* gone, while another action keeps its changed shortcut in the store
C11_Witness ==
    /\ Persisted
    /\ \E n \in LiveNames :
        /\ Live(n).shortcuts = Live(n).defaultShortcuts
        /\ Live(n).defaultShortcuts # <<>>
        /\ n \notin DOMAIN shortcuts
    /\ \E n \in LiveNames :
        /\ Live(n).shortcuts # Live(n).defaultShortcuts
        /\ shortcuts[n] = storedText(Live(n).shortcuts)

\* s is the beginning of t
IsPrefix(s, t) == Len(s) <= Len(t) /\ \A i \in 1..Len(s) : s[i] = t[i]

\* the constructor has run this step
Ran(step) == \E i \in 1..Len(startup) : startup[i] = step

\* the three startup steps the constructor has run, in the order it ran them
StartupSteps == SelectSeq(startup, LAMBDA step : step # "loadEngine")

\* C12 as stated: the service name is registered first, then the worker
\* thread is started, then the custom commands are loaded.
C12_RegisterThenWorkerThenPreload ==
    IsPrefix(StartupSteps,
             <<"registerMpris", "setupWorkerThread", "setupUserActions">>)

\* C12: the constructor loads the custom commands first, then registers the
\* service name, then starts the worker thread, then loads the engine; the
\* thread is never started before the registration ran nor a name registered
\* before the custom commands were loaded, and when the UI first calls
\* action() all three steps have run.
C12_PreloadThenRegisterThenWorker ==
    /\ IsPrefix(startup, <<"setupUserActions", "registerMpris",
                           "setupWorkerThread", "loadEngine">>)
    /\ threads # <<>> => Ran("registerMpris")
    /\ services # {} => Ran("setupUserActions")
    /\ nCommands > 0 => Ran("setupUserActions")
    /\ nCalls > 0 =>
        /\ Ran("setupUserActions") /\ Ran("registerMpris")
        /\ Ran("setupWorkerThread")
        /\ Len(threads) = 1
        /\ busConnected => mspris2Name \in services
        /\ \A g \in ShortcutGroups : g \in LiveNames

\* the UI's first action() call is served after a startup that loaded a
\* custom command, registered the name and started the thread
C12_Witness ==
    /\ Resolved /\ nCalls = 1
    /\ startup = <<"setupUserActions", "registerMpris",
                   "setupWorkerThread", "loadEngine">>
    /\ ShortcutGroups # {}
    /\ mspris2Name \in services
    /\ Len(threads) = 1

\* C13: without a session bus the registration registers nothing and does
\* not end the startup: the constructor goes on to start the worker thread
\* and load the engine (only a failed engine load ends the process), and the
\* running process has its custom commands loaded, its thread started and
\* no service name or object on the bus.
C13_BusUnavailableStartupGoesOn ==
    ~busConnected =>
        /\ services = {} /\ objects = {}
        /\ pc = "exited" => Ran("loadEngine")
        /\ pc = "run" =>
            /\ Ran("setupUserActions") /\ Ran("registerMpris")
            /\ Ran("setupWorkerThread") /\ Ran("loadEngine")
            /\ Len(threads) = 1
            /\ \A g \in ShortcutGroups : g \in LiveNames

\* the process runs and serves the UI although the registration failed
C13_Witness ==
    /\ ~busConnected
    /\ pc = "run" /\ nCalls > 0
    /\ Ran("registerMpris")
    /\ services = {} /\ objects = {}
    /\ Len(threads) = 1

\* C14: a call of action(name) for a name the collection holds returns the
\* object registered under it without running readSettings, and leaves the
\* collection, every action with its shortcut, the "Shortcuts" group and the
\* custom-commands file as they were.
C14_ResolveLiveChangesNothing ==
    [][(lastCall'.op = "action" /\ nCalls' = nCalls + 1
            /\ lastCall'.name \in DOMAIN actionByName) =>
        /\ lastCall'.ret = actionByName[lastCall'.name]
        /\ ~lastCall'.merged
        /\ UNCHANGED <<actionByName, heap, shortcuts, ccGroups, ccCounter>>]_vars

\* a live action whose shortcut the user cleared is resolved again: it keeps
\* the empty shortcut, where reading the store again would give it the
\* unknown key
C14_Witness ==
    /\ Resolved
    /\ lastCall.name \in DOMAIN lastCall.before
    /\ ~lastCall.merged
    /\ lastCall.name \in DOMAIN shortcuts
    /\ Live(lastCall.name).shortcuts = <<>>
    /\ listFromString(shortcuts[lastCall.name]) # <<>>

\* the last step was a call of action() that created the action it returned
Created ==
    /\ Resolved
    /\ lastCall.ret # NULL
    /\ lastCall.name \notin DOMAIN lastCall.before

\* C15: right after a call of action() that created an action, every live
\* action whose name has an entry in the "Shortcuts" group has the key
\* sequences of that entry, the actions made before the entry was written
\* included.
C15_CreationRemergesAll ==
    Created =>
        \A n \in LiveNames \cap DOMAIN shortcuts :
            Live(n).shortcuts = listFromString(shortcuts[n])

\* creating one action changed the shortcut of another: the older action
\* had been cleared in the dialog, which wrote its entry, and now has what
\* the entry reads back as
C15_Witness ==
    /\ Created
    /\ \E n \in DOMAIN lastCall.before \cap DOMAIN shortcuts :
        /\ n # lastCall.name
        /\ shortcuts[n] = "none"
        /\ Live(n).shortcuts = <<Key_unknown>>

\* thread t has emitted finished
FinishedEmitted(t) == threads[t].state \in {"inFinish", "finished", "deleted"}

\* C16: once the thread the constructor started has emitted finished, the
\* worker is deleted first and the QThread object after it: the thread
\* object is never deleted while the worker is alive, and neither is
\* deleted before finished was emitted.
C16_WorkerThenContext ==
    /\ [](ContextReleased => WorkerReleased)
    /\ [](WorkerReleased => \E t \in DOMAIN threads : FinishedEmitted(t))
    /\ [](\A t \in DOMAIN threads :
            threads[t].state = "deleted" => threads[t].quit)
    /\ [][(\E t \in DOMAIN threads :
                threads[t].state # "deleted" /\ threads'[t].state = "deleted")
            => WorkerReleased]_vars

\* the thread was asked to quit, emitted finished, and the worker and then
\* the thread object were deleted
C16_Witness ==
    /\ WorkerReleased
    /\ ContextReleased
    /\ \A t \in DOMAIN threads : threads[t].quit

\* C17: no step takes a name out of the collection or puts another object
\* under a name the collection holds.
C17_LiveActionStays ==
    [][\A n \in DOMAIN actionByName :
        /\ n \in DOMAIN actionByName'
        /\ actionByName'[n] = actionByName[n]]_vars

\* C18: a call of action(name) for a name that is neither in the collection
\* nor in the catalog returns nullptr after one readSettings over every
\* action: no name is added, removed or given another object, no object is
\* created and no action changes but in its shortcut; every action whose
\* name has an entry gets the key sequences of the entry, every other one
\* its default when the group has entries at all.
C18_UnknownResolveMergesAll ==
    [][(lastCall'.op = "action" /\ nCalls' = nCalls + 1
            /\ lastCall'.name \notin DOMAIN actionByName
            /\ lastCall'.name \notin CatalogIds) =>
        /\ lastCall'.ret = NULL
        /\ lastCall'.merged
        /\ actionByName' = actionByName
        /\ DOMAIN heap' = DOMAIN heap
        /\ \A o \in DOMAIN heap :
            heap'[o] = [heap[o] EXCEPT !.shortcuts = heap'[o].shortcuts]
        /\ \A n \in DOMAIN actionByName :
            heap'[actionByName[n]].shortcuts =
                IF n \in DOMAIN shortcuts THEN listFromString(shortcuts[n])
                ELSE IF DOMAIN shortcuts # {}
                THEN heap[actionByName[n]].defaultShortcuts
                ELSE heap[actionByName[n]].shortcuts
        /\ UNCHANGED <<shortcuts, ccGroups, ccCounter>>]_vars

\* resolving an unknown name changed the shortcut of a live catalog action:
\* the user had cleared it in the dialog, and the merge gave it what its
\* entry reads back as
C18_Witness ==
    /\ Resolved /\ nCalls = 3
    /\ lastCall.name = "noSuchAction"
    /\ lastCall.ret = NULL
    /\ lastCall.merged
    /\ \E n \in LiveNames \cap DOMAIN shortcuts :
        /\ Live(n).origin = "catalog"
        /\ Live(n).shortcuts = <<Key_unknown>>

\* the catalog ids that custom commands loaded at startup are named by
Shadowed ==
    IF Ran("setupUserActions") THEN CatalogIds \cap ShortcutGroups ELSE {}

\* the catalog's text for a catalog id
CatalogText(id) ==
    Catalog[CHOOSE i \in 1..Len(Catalog) : Catalog[i].name = id].text

\* C19: a catalog id that a loaded custom command is named by stays with the
\* custom action: the action under the id is the one made for the command,
\* with the command as its text and no default shortcut; action(id) returns
\* it and creates nothing; the catalog's action for the id is never made.
C19_CustomShadowsCatalog ==
    \A id \in Shadowed :
        /\ id \in LiveNames
        /\ Live(id).origin = "user"
        /\ Live(id).text = ccGroups[id].Command
        /\ Live(id).defaultShortcuts = <<>>
        /\ \A o \in DOMAIN heap :
            ~(heap[o].origin = "catalog" /\ heap[o].text = CatalogText(id))
        /\ (Resolved /\ lastCall.name = id) =>
            /\ lastCall.ret = actionByName[id]
            /\ lastCall.ret = lastCall.before[id]
            /\ Len(heap) = lastCall.heapBefore

\* action("screenshot") returned the action of the custom command loaded
\* under that name, after another catalog action had been created
C19_Witness ==
    /\ Resolved
    /\ lastCall.name \in Shadowed
    /\ heap[lastCall.ret].origin = "user"
    /\ heap[lastCall.ret].text = "screenshot-to-file"
    /\ \E o \in DOMAIN heap : heap[o].origin = "catalog"

(* --------------------------- specification ----------------------------- *)

\* contents of the "Shortcuts" group found at startup
StoreFiles ==
    {EmptyMap, "screenshot" :> "Alt+S", "Command_0" :> "Alt+S"}

\* contents of the custom-commands file found at startup
GroupFiles ==
    {EmptyMap,
     ("Command_0" :> [Type |-> "shortcut", Command |-> "cycle pause"])
        @@ ("Command_1" :> [Type |-> "startup", Command |-> "set volume 50"]),
     ("Command_0" :> [Type |-> "shortcut", Command |-> "cycle pause"])
        @@ ("screenshot" :> [Type |-> "shortcut", Command |-> "screenshot-to-file"])}

\* the names the UI asks action() for
RequestedNames ==
    {Catalog[i].name : i \in 1..NumRequested} \cup {"noSuchAction"}

\* the texts the UI gives createUserAction
UserTexts == {"add volume 5", "cycle mute"}

\* the edits of one dialog: at most one action gets a new shortcut
DialogEdits ==
    {EmptyMap} \cup
    UNION {{o :> l : l \in DialogShortcuts(o)} : o \in LiveObjects(Collection)}

Init ==
    /\ pc = "setupUserActions"
    /\ startup = <<>>
    /\ actionByName = EmptyMap
    /\ heap = <<>>
    /\ shortcuts \in StoreFiles
    /\ ccGroups \in GroupFiles
    /\ ccCounter \in 0..MaxCounter
    /\ lastCall = [op |-> "none", name |-> "", arg |-> "", ret |-> NULL, merged |-> FALSE,
                   before |-> EmptyMap, heapBefore |-> 0, counter |-> 0]
    /\ nCommands = 0
    /\ nCalls = 0
    /\ threads = <<>>
    /\ worker = [thread |-> MainThread, alive |-> TRUE, busy |-> FALSE,
                 deferred |-> FALSE, delCall |-> FALSE]
    /\ posted = 0
    /\ submitted = 0
    /\ done = 0
    /\ busConnected \in BOOLEAN
    /\ services = {}
    /\ objects = {}
    /\ nRepeat = 0

\* the constructor, then the calls the UI makes
Next ==
    \/ setupUserActions
    \/ registerMpris
    \/ setupWorkerThread
    \/ \E ok \in BOOLEAN : loadEngine(ok)
    \/ \E name \in RequestedNames : action(name)
    \/ \E text \in UserTexts : createUserAction(text)
    \/ \E edits \in DialogEdits, accepted \in BOOLEAN :
            configureShortcuts(edits, accepted)

Spec == Init /\ [][Next]_vars

\* the constructor, then the life of the worker thread
NextWorker ==
    \/ setupUserActions
    \/ registerMpris
    \/ setupWorkerThread
    \/ \E ok \in BOOLEAN : loadEngine(ok)
    \/ SubmitWork
    \/ WorkBegin
    \/ WorkEnd
    \/ \E t \in DOMAIN threads : ThreadEnterLoop(t)
    \/ \E t \in DOMAIN threads : RequestShutdown(t)
    \/ \E t \in DOMAIN threads : ThreadReturn(t)
    \/ \E t \in DOMAIN threads : ThreadFinish(t)
    \/ \E t \in DOMAIN threads : MainDeleteLater(t)
    \/ \E t \in DOMAIN threads : MainDeferredDelete(t)

SpecWorker == Init /\ [][NextWorker]_vars

\* the same with a startup step run a second time
NextRepeat ==
    \/ NextWorker
    \/ RepeatSetupWorkerThread
    \/ RepeatRegisterMpris
    \/ WorkerDeleteLater
    \/ WorkerDeferredDelete

SpecRepeat == Init /\ [][NextRepeat]_vars

====
